---- MODULE Spec2Model ----
(***************************************************************************)
(* Model of package log (src/log.go): an ordered accumulator of            *)
(* categorized messages.  Strings are sequences of one-character strings,  *)
(* slices are Go slice headers (array, len, cap) over a heap of backing    *)
(* arrays, so that append-in-place, reallocation and aliasing through a    *)
(* returned slice are all visible.                                         *)
(***************************************************************************)
EXTENDS Naturals, Sequences, FiniteSets

VARIABLES
    goos,      \* runtime.GOOS of the process
    logs,      \* the Log objects: LogIds -> [Prefix, ln, osIsWin]
    heap,      \* backing arrays of the slices: array id -> sequence of LogInfo
    view,      \* the slice a caller kept from Notes(): [log, s], or NoView
    ret,       \* the last call: [op, log, val]
    appended   \* history: per log, the messages handed to it since the last Clear

vars == <<goos, logs, heap, view, ret, appended>>

(***************************************************************************)
(* Bounds                                                                  *)
(***************************************************************************)
MaxNotes == 3      \* messages one log holds
MaxKept  == 4      \* the same, where a caller keeps and writes the slice of Notes()

\* The logs that were constructed.
LogIds == DOMAIN logs

(***************************************************************************)
(* LogType constants, src/log.go:20-29                                     *)
(***************************************************************************)
Info    == <<"I", "N", "F">>
Warn    == <<"W", "R", "N">>
Error   == <<"E", "R", "R">>
Fatal   == <<"F", "T", "L">>
Success == <<"S", "U", "C">>
App     == <<>>

DelimMsgType == <<":", " ">>

\* The zero value of LogInfo: what the unused capacity of a fresh array holds.
ZeroLogInfo == [Type |-> <<>>, Prefix |-> <<>>, Message |-> <<>>]

\* make([]LogInfo, 0) and []LogInfo{}: no backing array (id 0), len 0, cap 0.
EmptySlice == [arr |-> 0, len |-> 0, cap |-> 0]

NoView == [log |-> 0, s |-> EmptySlice]
Void   == <<>>

(***************************************************************************)
(* Inputs                                                                  *)
(***************************************************************************)
Prefixes == { <<>>, <<"X">> }

\* Raw strings handed to the adds: only whitespace; text padded with whitespace.
Blank   == <<" ", "\t">>
Padded  == <<"\n", "a", " ", "b", "\r", " ">>

\* The strings of one variadic add call.
TextBatches == { << >>, <<Padded>>, <<Padded, Blank>> }

\* LogInfo values built by a caller and handed to Append as they are.
FatalNote == [Type |-> Fatal, Prefix |-> <<"Y">>, Message |-> <<" ", "u">>]
ErrorNote == [Type |-> Error, Prefix |-> <<>>,    Message |-> <<"e">>]

\* The LogInfo values of one Append call.
InfoBatches == { << >>, <<FatalNote>>, <<ErrorNote, FatalNote>> }

(***************************************************************************)
(* strings.TrimSpace                                                       *)
(***************************************************************************)
IsSpace(c) == c \in { " ", "\t", "\n", "\r" }

RECURSIVE TrimLeft(_)
TrimLeft(s) ==
    IF s = <<>> \/ ~IsSpace(Head(s)) THEN s ELSE TrimLeft(Tail(s))

RECURSIVE TrimRight(_)
TrimRight(s) ==
    IF s = <<>> \/ ~IsSpace(s[Len(s)]) THEN s ELSE TrimRight(SubSeq(s, 1, Len(s) - 1))

TrimSpace(s) == TrimRight(TrimLeft(s))

(***************************************************************************)
(* Slices and the built-in append                                          *)
(***************************************************************************)
\* The elements of slice s, read from the heap.
Elems(h, s) == [i \in 1..s.len |-> h[s.arr][i]]

\* A fresh array id: the least id not in use.
FreshArr(h) == CHOOSE a \in 1..(Cardinality(DOMAIN h) + 1) : a \notin DOMAIN h

\* Capacity of the array append allocates when oldcap is too small: what the
\* Go runtime does for slices this short (the needed length if that is more
\* than double the old capacity, double the old capacity otherwise; no
\* rounding to a size class changes it for fewer than 11 LogInfo values).
GrowCap(oldcap, needed) == IF needed > 2 * oldcap THEN needed ELSE 2 * oldcap
\* Faulty variant: the new elements appended to a fresh slice, the old ones lost.
GoAppend_Fresh(h, s, elems) ==
    IF Len(elems) = 0 THEN [heap |-> h, s |-> s]
    ELSE LET a == FreshArr(h)
         IN  [heap |-> [x \in DOMAIN h \cup {a} |-> IF x = a THEN elems ELSE h[x]],
              s    |-> [arr |-> a, len |-> Len(elems), cap |-> Len(elems)]]

\* append(s, elems...): the new heap and the slice returned.
GoAppend(h, s, elems) ==
    LET needed == s.len + Len(elems) IN
    IF Len(elems) = 0 THEN [heap |-> h, s |-> s]
    ELSE IF needed <= s.cap
    THEN [heap |-> [h EXCEPT ![s.arr] =
                       [i \in 1..s.cap |->
                           IF i > s.len /\ i <= needed THEN elems[i - s.len] ELSE @[i]]],
          s    |-> [s EXCEPT !.len = needed]]
    ELSE LET a      == FreshArr(h)
             newcap == GrowCap(s.cap, needed)
             arr    == [i \in 1..newcap |->
                           IF i <= s.len THEN h[s.arr][i]
                           ELSE IF i <= needed THEN elems[i - s.len]
                           ELSE ZeroLogInfo]
         IN  [heap |-> [x \in DOMAIN h \cup {a} |-> IF x = a THEN arr ELSE h[x]],
              s    |-> [arr |-> a, len |-> needed, cap |-> newcap]]

\* Arrays no slice refers to any more are reclaimed by the garbage collector.
\* The arrays left are renamed after the first slice that refers to them (log
\* l's array is l, an array only the caller's view refers to is ViewArr): an
\* address has no meaning beyond which slices share it.
ViewArr == 0 - 1

ArrName(a, ls) ==
    IF a = 0 THEN 0
    ELSE IF \E l \in DOMAIN ls : ls[l].ln.arr = a
    THEN CHOOSE l \in DOMAIN ls :
             /\ ls[l].ln.arr = a
             /\ \A k \in DOMAIN ls : ls[k].ln.arr = a => l <= k
    ELSE ViewArr

Collect(h, ls, v) ==
    LET live == ({ ls[l].ln.arr : l \in DOMAIN ls } \cup { v.s.arr }) \ {0}
        old(n) == CHOOSE a \in live : ArrName(a, ls) = n
    IN  [heap |-> [n \in { ArrName(a, ls) : a \in live } |-> h[old(n)]],
         logs |-> [l \in DOMAIN ls |-> [ls[l] EXCEPT !.ln.arr = ArrName(@, ls)]],
         view |-> [v EXCEPT !.s.arr = ArrName(@, ls)]]

(***************************************************************************)
(* Construction                                                            *)
(***************************************************************************)
NewLog(prefix) ==
    [Prefix |-> prefix, ln |-> EmptySlice, osIsWin |-> (goos = "windows")]

\* One log, constructed with any prefix on any platform.
Init ==
    /\ goos \in { "windows", "linux" }
    /\ \E p \in Prefixes : logs = [l \in {1} |-> NewLog(p)]
    /\ heap = << >>
    /\ view = NoView
    /\ ret = [op |-> "NewLog", log |-> 0, val |-> Void]
    /\ appended = [l \in LogIds |-> << >>]

\* The state an operation leaves: its heap, logs and view, garbage collected.
Settle(h, ls, v) ==
    LET c == Collect(h, ls, v)
    IN  /\ heap' = c.heap
        /\ logs' = c.logs
        /\ view' = c.view

(***************************************************************************)
(* Adding messages                                                         *)
(***************************************************************************)
\* Faulty variant: a message that is empty once trimmed is not appended.
addMessage_SkipEmpty(h, nt, prefix, msg, typ) ==
    IF TrimSpace(msg) = << >> THEN [heap |-> h, s |-> nt]
    ELSE GoAppend(h, nt, << [Type |-> typ, Prefix |-> prefix, Message |-> TrimSpace(msg)] >>)

addMessage(h, nt, prefix, msg, typ) ==
    GoAppend(h, nt, << [Type |-> typ, Prefix |-> prefix, Message |-> TrimSpace(msg)] >>)

\* for _, m := range msg { addMessage(&r.ln, r.Prefix, m, typ) }
RECURSIVE AddEach(_, _, _, _, _)
AddEach(h, nt, prefix, msgs, typ) ==
    IF msgs = << >> THEN [heap |-> h, s |-> nt]
    ELSE LET one == addMessage(h, nt, prefix, Head(msgs), typ)
         IN  AddEach(one.heap, one.s, prefix, Tail(msgs), typ)

\* What a categorized add hands to the log, for the history.
Handed(l, msgs, typ) ==
    [i \in 1..Len(msgs) |->
        [Type |-> typ, Prefix |-> logs[l].Prefix, Message |-> TrimSpace(msgs[i])]]

Add(l, msgs, typ, op) ==
    /\ LET r == AddEach(heap, logs[l].ln, logs[l].Prefix, msgs, typ)
       IN  Settle(r.heap, [logs EXCEPT ![l].ln = r.s], view)
    /\ ret' = [op |-> op, log |-> l, val |-> Void]
    /\ appended' = [appended EXCEPT ![l] = @ \o Handed(l, msgs, typ)]
    /\ UNCHANGED goos

AddInfo(l, msgs)    == Add(l, msgs, Info, "AddInfo")
AddWarning(l, msgs) == Add(l, msgs, Warn, "AddWarning")
AddError(l, msgs)   == Add(l, msgs, Error, "AddError")
AddSuccess(l, msgs) == Add(l, msgs, Success, "AddSuccess")
AddAppMsg(l, msgs)  == Add(l, msgs, App, "AddAppMsg")
\* Faulty variant: the messages added again under the receiving log's prefix, trimmed.
AppendTo_Retagged(l, ln, op) ==
    /\ LET again == [i \in 1..Len(ln) |->
                        [ln[i] EXCEPT !.Prefix = logs[l].Prefix,
                                      !.Message = TrimSpace(@)]]
           r == GoAppend(heap, logs[l].ln, again)
       IN  Settle(r.heap, [logs EXCEPT ![l].ln = r.s], view)
    /\ ret' = [op |-> op, log |-> l, val |-> Void]
    /\ appended' = [appended EXCEPT ![l] = @ \o ln]
    /\ UNCHANGED goos

\* r.ln = append(r.ln, ln...)
AppendTo(l, ln, op) ==
    /\ LET r == GoAppend(heap, logs[l].ln, ln)
       IN  Settle(r.heap, [logs EXCEPT ![l].ln = r.s], view)
    /\ ret' = [op |-> op, log |-> l, val |-> Void]
    /\ appended' = [appended EXCEPT ![l] = @ \o ln]
    /\ UNCHANGED goos

LogAppend(l, ln) == AppendTo(l, ln, "Append")
\* Faulty variant: the log replaced by a newly constructed one, its prefix lost.
Clear_Renewed(l) ==
    /\ Settle(heap, [logs EXCEPT ![l] = NewLog(<< >>)], view)
    /\ ret' = [op |-> "Clear", log |-> l, val |-> Void]
    /\ appended' = [appended EXCEPT ![l] = << >>]
    /\ UNCHANGED goos

\* r.ln = []LogInfo{}
Clear(l) ==
    /\ Settle(heap, [logs EXCEPT ![l].ln = EmptySlice], view)
    /\ ret' = [op |-> "Clear", log |-> l, val |-> Void]
    /\ appended' = [appended EXCEPT ![l] = << >>]
    /\ UNCHANGED goos

(***************************************************************************)
(* Reading                                                                 *)
(***************************************************************************)
\* for _, ln := range r.ln { if ln.Type == typ { return true } }; return false
RECURSIVE ScanType(_, _, _)
ScanType(notes, i, typ) ==
    IF i > Len(notes) THEN FALSE
    ELSE IF notes[i].Type = typ THEN TRUE
    ELSE ScanType(notes, i + 1, typ)

HasErrors(h, r)   == ScanType(Elems(h, r.ln), 1, Error)
HasWarnings(h, r) == ScanType(Elems(h, r.ln), 1, Warn)
HasInfos(h, r)    == ScanType(Elems(h, r.ln), 1, Info)
\* Faulty variant: the loop copied from HasInfos with its constant left as it was.
HasSucceses_Copied(h, r) == ScanType(Elems(h, r.ln), 1, Info)

HasSucceses(h, r) == ScanType(Elems(h, r.ln), 1, Success)

\* The tallying loop of getDominantNoteType.
RECURSIVE Tally(_, _, _)
Tally(msgs, i, c) ==
    IF i > Len(msgs) THEN c
    ELSE LET t == msgs[i].Type
         IN  Tally(msgs, i + 1,
                   IF t = Info THEN [c EXCEPT !.nfo = @ + 1]
                   ELSE IF t = Warn THEN [c EXCEPT !.wrn = @ + 1]
                   ELSE IF t = Error THEN [c EXCEPT !.err = @ + 1]
                   ELSE IF t = Success THEN [c EXCEPT !.suc = @ + 1]
                   ELSE c)
\* Faulty variant: the comparisons made with >= (ties go to the first category tested).
getDominantNoteType_Ties(msgs) ==
    LET c == Tally(msgs, 1, [nfo |-> 0, wrn |-> 0, err |-> 0, suc |-> 0]) IN
    IF c.nfo >= c.wrn /\ c.nfo >= c.err /\ c.nfo >= c.suc /\ c.nfo > 0 THEN Info
    ELSE IF c.wrn >= c.nfo /\ c.wrn >= c.err /\ c.wrn >= c.suc /\ c.wrn > 0 THEN Warn
    ELSE IF c.err >= c.nfo /\ c.err >= c.wrn /\ c.err >= c.suc /\ c.err > 0 THEN Error
    ELSE IF c.suc >= c.nfo /\ c.suc >= c.wrn /\ c.suc >= c.err /\ c.suc > 0 THEN Success
    ELSE App

getDominantNoteType(msgs) ==
    LET c == Tally(msgs, 1, [nfo |-> 0, wrn |-> 0, err |-> 0, suc |-> 0]) IN
    IF c.nfo > c.wrn /\ c.nfo > c.err /\ c.nfo > c.suc THEN Info
    ELSE IF c.wrn > c.nfo /\ c.wrn > c.err /\ c.wrn > c.suc THEN Warn
    ELSE IF c.err > c.nfo /\ c.err > c.wrn /\ c.err > c.suc THEN Error
    ELSE IF c.suc > c.nfo /\ c.suc > c.wrn /\ c.suc > c.err THEN Success
    ELSE App

Prevailing(h, r) == getDominantNoteType(Elems(h, r.ln))

Notes(r) == r.ln
\* Faulty variant: the brackets written whether or not there is a prefix.
ToString_Brackets(lni) ==
    IF lni.Type # App
    THEN lni.Type \o <<"[">> \o lni.Prefix \o <<"]">> \o DelimMsgType \o lni.Message
    ELSE lni.Message

\* LogInfo.ToString
ToString(lni) ==
    LET td0 == << >>
        td1 == IF lni.Type # App
               THEN LET a == td0 \o lni.Type
                        b == IF lni.Prefix # << >>
                             THEN a \o <<"[">> \o lni.Prefix \o <<"]">>
                             ELSE a
                    IN  b \o DelimMsgType
               ELSE td0
    IN  td1 \o lni.Message
\* Faulty variant: the newline written between the lines only, as a join would.
RECURSIVE WriteEach_Join(_, _, _, _)
WriteEach_Join(sb, notes, i, lf) ==
    IF i > Len(notes) THEN sb
    ELSE WriteEach_Join(sb \o ToString(notes[i]) \o (IF i < Len(notes) THEN lf ELSE << >>),
                        notes, i + 1, lf)

\* The loop of Log.ToString: sb.Write([]byte(v.ToString() + lf)) for each v.
RECURSIVE WriteEach(_, _, _, _)
WriteEach(sb, notes, i, lf) ==
    IF i > Len(notes) THEN sb
    ELSE WriteEach(sb \o ToString(notes[i]) \o lf, notes, i + 1, lf)

LogToString(h, r) ==
    LET lf == IF r.osIsWin THEN <<"\r", "\n">> ELSE <<"\n">>
    IN  WriteEach(<< >>, Elems(h, r.ln), 1, lf)

\* A read call: the result goes to the caller, the log is left as it is.
Returns(l, op, val) ==
    /\ ret' = [op |-> op, log |-> l, val |-> val]
    /\ UNCHANGED <<goos, logs, heap, view, appended>>

CallHasErrors(l)   == Returns(l, "HasErrors", HasErrors(heap, logs[l]))
CallHasWarnings(l) == Returns(l, "HasWarnings", HasWarnings(heap, logs[l]))
CallHasInfos(l)    == Returns(l, "HasInfos", HasInfos(heap, logs[l]))
CallHasSucceses(l) == Returns(l, "HasSucceses", HasSucceses(heap, logs[l]))
CallPrevailing(l)  == Returns(l, "Prevailing", Prevailing(heap, logs[l]))
\* Faulty variant: the rendering drains the log, as reading a buffer would.
CallToString_Drain(l) ==
    /\ Settle(heap, [logs EXCEPT ![l].ln = EmptySlice], view)
    /\ ret' = [op |-> "ToString", log |-> l, val |-> LogToString(heap, logs[l])]
    /\ UNCHANGED <<goos, appended>>

CallToString(l)    == Returns(l, "ToString", LogToString(heap, logs[l]))
CallNotes(l)       == Returns(l, "Notes", Notes(logs[l]))

\* dst.Append(src.Notes()...): the messages of one log handed to another.
Merge(dst, src) ==
    /\ dst # src
    /\ AppendTo(dst, Elems(heap, Notes(logs[src])), "Merge")

(***************************************************************************)
(* The caller that keeps the slice Notes() returned                        *)
(***************************************************************************)
\* v := r.Notes()
KeepNotes(l) ==
    /\ Settle(heap, logs, [log |-> l, s |-> Notes(logs[l])])
    /\ ret' = [op |-> "Notes", log |-> l, val |-> Notes(logs[l])]
    /\ UNCHANGED <<goos, appended>>

\* v[i] = x
CallerOverwrite(i, x) ==
    /\ view.log # 0
    /\ i \in 1..view.s.len
    /\ heap' = [heap EXCEPT ![view.s.arr][i] = x]
    /\ ret' = [op |-> "Overwrite", log |-> view.log, val |-> Void]
    /\ UNCHANGED <<goos, logs, view, appended>>

\* v = append(v, x)
CallerAppend(x) ==
    /\ view.log # 0
    /\ LET r == GoAppend(heap, view.s, <<x>>)
       IN  Settle(r.heap, logs, [view EXCEPT !.s = r.s])
    /\ ret' = [op |-> "AppendToView", log |-> view.log, val |-> Void]
    /\ UNCHANGED <<goos, appended>>

(***************************************************************************)
(* Specifications                                                          *)
(***************************************************************************)
\* Room for k more messages in log l.
Room(l, k, max) == logs[l].ln.len + k <= max

\* One log and every operation of the package.
Next ==
    \/ \E l \in LogIds, msgs \in TextBatches :
          Room(l, Len(msgs), MaxNotes) /\ AddInfo(l, msgs)
    \/ \E l \in LogIds, msgs \in TextBatches :
          Room(l, Len(msgs), MaxNotes) /\ AddWarning(l, msgs)
    \/ \E l \in LogIds, msgs \in TextBatches :
          Room(l, Len(msgs), MaxNotes) /\ AddError(l, msgs)
    \/ \E l \in LogIds, msgs \in TextBatches :
          Room(l, Len(msgs), MaxNotes) /\ AddSuccess(l, msgs)
    \/ \E l \in LogIds, msgs \in TextBatches :
          Room(l, Len(msgs), MaxNotes) /\ AddAppMsg(l, msgs)
    \/ \E l \in LogIds, ln \in InfoBatches :
          Room(l, Len(ln), MaxNotes) /\ LogAppend(l, ln)
    \/ \E l \in LogIds : Clear(l)
    \/ \E l \in LogIds : CallHasErrors(l)
    \/ \E l \in LogIds : CallHasWarnings(l)
    \/ \E l \in LogIds : CallHasInfos(l)
    \/ \E l \in LogIds : CallHasSucceses(l)
    \/ \E l \in LogIds : CallPrevailing(l)
    \/ \E l \in LogIds : CallToString(l)
    \/ \E l \in LogIds : CallNotes(l)

Spec == Init /\ [][Next]_vars

\* Two logs built independently, with different prefixes, and merged.
InitMerge ==
    /\ goos \in { "windows", "linux" }
    /\ \E p \in [{1, 2} -> Prefixes] :
          /\ p[1] # p[2]
          /\ logs = [l \in {1, 2} |-> NewLog(p[l])]
    /\ heap = << >>
    /\ view = NoView
    /\ ret = [op |-> "NewLog", log |-> 0, val |-> Void]
    /\ appended = [l \in {1, 2} |-> << >>]

NextMerge ==
    \/ \E l \in LogIds : Room(l, 1, MaxNotes) /\ AddInfo(l, <<Padded>>)
    \/ \E l \in LogIds : Room(l, 1, MaxNotes) /\ LogAppend(l, <<FatalNote>>)
    \/ \E dst \in LogIds, src \in LogIds :
          Room(dst, logs[src].ln.len, MaxNotes) /\ Merge(dst, src)
    \/ \E l \in LogIds : Clear(l)
    \/ \E l \in LogIds : CallNotes(l)

SpecMerge == InitMerge /\ [][NextMerge]_vars

\* One log, and a caller that keeps the slice Notes() returned and writes it.
NextAlias ==
    \/ \E l \in LogIds : Room(l, 1, MaxKept) /\ AddInfo(l, <<Padded>>)
    \/ \E l \in LogIds : Room(l, 1, MaxKept) /\ AddError(l, <<Blank>>)
    \/ \E l \in LogIds : Clear(l)
    \/ \E l \in LogIds : KeepNotes(l)
    \/ \E i \in 1..MaxKept : CallerOverwrite(i, FatalNote)
    \/ view.s.len < MaxKept /\ CallerAppend(FatalNote)
    \/ \E l \in LogIds : CallNotes(l)

SpecAlias == Init /\ [][NextAlias]_vars

(***************************************************************************)
(* Properties                                                              *)
(***************************************************************************)
\* The messages log l holds, in order.
NotesOf(l) == Elems(heap, Notes(logs[l]))

\* How many messages of log l have type t.
Count(l, t) == Cardinality({ i \in 1..Len(NotesOf(l)) : NotesOf(l)[i].Type = t })

Tallied == { Info, Warn, Error, Success }

\* C1: Prevailing() returns a category of Info, Warn, Error, Success exactly
\* when that category's count is strictly greater than each of the other
\* three counts, and returns App in every other case.
C1_PrevailingLaw ==
    \A l \in LogIds :
        LET p == Prevailing(heap, logs[l]) IN
        /\ p \in Tallied \cup { App }
        /\ \A c \in Tallied :
              (p = c) <=> (\A d \in Tallied \ {c} : Count(l, c) > Count(l, d))

C1_Witness ==
    /\ ret.op = "Prevailing" /\ ret.val = Info
    /\ Count(1, Info) = 2 /\ Count(1, Warn) = 1 /\ Len(NotesOf(1)) = 3

\* C2: with no Clear in between, the log holds exactly the messages handed
\* to it by the adds and by Append, one per string or LogInfo, in the order
\* in which they were handed over.
C2_NotesInOrder == \A l \in LogIds : NotesOf(l) = appended[l]

C2_Witness ==
    /\ ret.op = "Append"
    /\ Len(NotesOf(1)) = 3
    /\ NotesOf(1)[1].Type = Warn
    /\ NotesOf(1)[2] = ErrorNote
    /\ NotesOf(1)[3] = FatalNote

\* C4: HasErrors() is true exactly when some message of the log has type
\* Error; likewise HasWarnings() for Warn, HasInfos() for Info and
\* HasSucceses() for Success.
Holds(l, t) == \E i \in 1..Len(NotesOf(l)) : NotesOf(l)[i].Type = t

C4_HasIffPresent ==
    \A l \in LogIds :
        /\ HasErrors(heap, logs[l])   <=> Holds(l, Error)
        /\ HasWarnings(heap, logs[l]) <=> Holds(l, Warn)
        /\ HasInfos(heap, logs[l])    <=> Holds(l, Info)
        /\ HasSucceses(heap, logs[l]) <=> Holds(l, Success)

C4_Witness ==
    /\ ret.op = "HasErrors" /\ ret.val = TRUE
    /\ NotesOf(1) = <<ErrorNote, FatalNote>>
    /\ ~HasInfos(heap, logs[1]) /\ ~HasWarnings(heap, logs[1])
    /\ ~HasSucceses(heap, logs[1])

\* The newline of the platform the log was constructed on.
Newline == IF goos = "windows" THEN <<"\r", "\n">> ELSE <<"\n">>

\* Where line i of the rendering of notes starts, less one: the lengths of
\* the lines before it, each with its newline.
RECURSIVE LineStart(_, _)
LineStart(notes, i) ==
    IF i = 1 THEN 0
    ELSE LineStart(notes, i - 1) + Len(ToString(notes[i - 1])) + Len(Newline)

\* C6: Log.ToString() is the rendered lines of the messages in insertion
\* order, every line (the last one too) followed by the newline of the
\* platform the log was constructed on; an empty log renders as "".
C6_RenderedLines ==
    \A l \in LogIds :
        LET out   == LogToString(heap, logs[l])
            notes == NotesOf(l)
            n     == Len(notes)
        IN  /\ Len(out) = LineStart(notes, n + 1)
            /\ \A i \in 1..n :
                  SubSeq(out, LineStart(notes, i) + 1, LineStart(notes, i + 1))
                      = ToString(notes[i]) \o Newline
            /\ (n = 0) => (out = << >>)

C6_Witness ==
    /\ ret.op = "ToString"
    /\ goos = "windows"
    /\ Len(NotesOf(1)) = 3
    /\ ret.val = <<"I", "N", "F", "[", "X", "]", ":", " ", "a", " ", "b", "\r", "\n",
                   "E", "R", "R", "[", "X", "]", ":", " ", "a", " ", "b", "\r", "\n",
                   "E", "R", "R", "[", "X", "]", ":", " ", "\r", "\n">>

TypeCodes == { Info, Warn, Error, Fatal, Success }

\* C7: an App message renders as exactly its text; a message of any other
\* type renders as its three-letter code, then "[" prefix "]" exactly when the
\* prefix is not empty, then one ": ", then its text.
C7_RenderedMessage ==
    \A l \in LogIds : \A i \in 1..Len(NotesOf(l)) :
        LET m   == NotesOf(l)[i]
            out == ToString(m)
            tag == IF m.Prefix = << >> THEN 0 ELSE Len(m.Prefix) + 2
        IN  IF m.Type = App
            THEN out = m.Message
            ELSE /\ m.Type \in TypeCodes
                 /\ Len(out) = 3 + tag + 2 + Len(m.Message)
                 /\ SubSeq(out, 1, 3) = m.Type
                 /\ (tag > 0) =>
                       /\ out[4] = "["
                       /\ SubSeq(out, 5, 3 + tag - 1) = m.Prefix
                       /\ out[3 + tag] = "]"
                 /\ SubSeq(out, 3 + tag + 1, 3 + tag + 2) = <<":", " ">>
                 /\ SubSeq(out, 3 + tag + 3, Len(out)) = m.Message

C7_Witness ==
    /\ ret.op = "ToString"
    /\ goos = "linux"
    /\ logs[1].Prefix = <<"X">>
    /\ ret.val = <<"a", " ", "b", "\n",
                   "E", "R", "R", ":", " ", "e", "\n",
                   "F", "T", "L", "[", "Y", "]", ":", " ", " ", "u", "\n">>

\* C5: Clear() leaves the log empty (no notes, the four Has* false,
\* Prevailing() App, ToString() empty) and changes neither its Prefix nor its
\* newline setting: the log is then in the state of a log newly constructed
\* with the same prefix.
C5_ClearEmpties ==
    [][ \A l \in LogIds : (ret'.op = "Clear" /\ ret'.log = l) =>
          /\ NotesOf(l)' = << >>
          /\ ~HasErrors(heap, logs[l])' /\ ~HasWarnings(heap, logs[l])'
          /\ ~HasInfos(heap, logs[l])' /\ ~HasSucceses(heap, logs[l])'
          /\ Prevailing(heap, logs[l])' = App
          /\ LogToString(heap, logs[l])' = << >>
          /\ logs'[l].Prefix = logs[l].Prefix
          /\ logs'[l].osIsWin = logs[l].osIsWin
          /\ logs'[l] = NewLog(logs[l].Prefix)
      ]_vars

C5_Witness ==
    /\ ret.op = "Clear"
    /\ logs[1].Prefix = <<"X">>
    /\ logs[1].osIsWin
    /\ NotesOf(1) = << >>

\* t is s without its leading and trailing whitespace.
IsTrimOf(t, s) ==
    \E i \in 1..(Len(s) + 1), j \in 0..Len(s) :
        /\ t = SubSeq(s, i, j)
        /\ \A k \in 1..(i - 1) : IsSpace(s[k])
        /\ \A k \in (j + 1)..Len(s) : IsSpace(s[k])
        /\ t # << >> => ~IsSpace(t[1]) /\ ~IsSpace(t[Len(t)])

\* After an add of type typ with the strings msgs, log l holds what it held,
\* then one message per string, in order: type typ, the log's prefix, the
\* string trimmed.
Added(l, msgs, typ) ==
    /\ Len(NotesOf(l)') = Len(NotesOf(l)) + Len(msgs)
    /\ SubSeq(NotesOf(l)', 1, Len(NotesOf(l))) = NotesOf(l)
    /\ \A i \in 1..Len(msgs) :
          LET m == NotesOf(l)'[Len(NotesOf(l)) + i] IN
          /\ m.Type = typ
          /\ m.Prefix = logs[l].Prefix
          /\ IsTrimOf(m.Message, msgs[i])

\* C8: a categorized add called with k strings appends exactly k messages,
\* one per string in order, each of the operation's type, with the log's
\* prefix and the string trimmed; empty and blank strings are appended too.
C8_AddAppendsEach ==
    [][ \A l \in LogIds, msgs \in TextBatches :
          /\ (ret'.op = "AddInfo" /\ AddInfo(l, msgs))       => Added(l, msgs, Info)
          /\ (ret'.op = "AddWarning" /\ AddWarning(l, msgs)) => Added(l, msgs, Warn)
          /\ (ret'.op = "AddError" /\ AddError(l, msgs))     => Added(l, msgs, Error)
          /\ (ret'.op = "AddSuccess" /\ AddSuccess(l, msgs)) => Added(l, msgs, Success)
          /\ (ret'.op = "AddAppMsg" /\ AddAppMsg(l, msgs))   => Added(l, msgs, App)
      ]_vars

C8_Witness ==
    /\ ret.op = "AddError"
    /\ logs[1].Prefix = <<"X">>
    /\ NotesOf(1) = << [Type |-> Error, Prefix |-> <<"X">>, Message |-> <<"a", " ", "b">>],
                       [Type |-> Error, Prefix |-> <<"X">>, Message |-> << >>] >>

\* The log a merge into dst takes its messages from.
Other(dst) == CHOOSE src \in LogIds : src # dst

\* C9: when the notes of a source log are handed to Append on a destination
\* log, they arrive after the destination's own, each with its own type,
\* prefix and text; the destination's prefix and the source log are unchanged.
C9_MergeKeepsNotes ==
    [][ \A dst \in LogIds : (ret'.op = "Merge" /\ ret'.log = dst) =>
          LET src == Other(dst)
          IN  /\ NotesOf(dst)' = NotesOf(dst) \o NotesOf(src)
              /\ logs'[dst].Prefix = logs[dst].Prefix
              /\ logs'[src] = logs[src]
              /\ NotesOf(src)' = NotesOf(src)
      ]_vars

C9_Witness ==
    /\ ret.op = "Merge" /\ ret.log = 1
    /\ logs[1].Prefix = <<"X">>
    /\ NotesOf(2) = << FatalNote,
                       [Type |-> Info, Prefix |-> << >>, Message |-> <<"a", " ", "b">>] >>
    /\ NotesOf(1) = << [Type |-> Info, Prefix |-> <<"X">>, Message |-> <<"a", " ", "b">>] >>
                       \o NotesOf(2)

ReadOps ==
    { "ToString", "Prevailing", "HasErrors", "HasWarnings", "HasInfos",
      "HasSucceses", "Notes" }

\* C10: the read operations change nothing of the log (its messages, its
\* Prefix, its newline setting), and a read repeated with no add, Append or
\* Clear in between returns what it returned before.
C10_ReadsArePure ==
    [][ ret'.op \in ReadOps =>
          /\ logs' = logs
          /\ heap' = heap
          /\ \A l \in LogIds : NotesOf(l)' = NotesOf(l)
          /\ (ret.op = ret'.op /\ ret.log = ret'.log) => ret'.val = ret.val
      ]_vars

C10_Witness ==
    /\ ret.op = "Notes"
    /\ ret.val.len = 3
    /\ Len(NotesOf(1)) = 3

\* C3: a write through the slice Notes() returned (an element overwritten, an
\* element appended) leaves the messages of every log as they were.
C3_ViewIsReadOnly ==
    [][ ret'.op \in { "Overwrite", "AppendToView" } =>
          \A l \in LogIds :
              /\ NotesOf(l)' = NotesOf(l)
              /\ LogToString(heap, logs[l])' = LogToString(heap, logs[l])
              /\ Prevailing(heap, logs[l])' = Prevailing(heap, logs[l])
              /\ HasErrors(heap, logs[l])' = HasErrors(heap, logs[l])
              /\ HasWarnings(heap, logs[l])' = HasWarnings(heap, logs[l])
              /\ HasInfos(heap, logs[l])' = HasInfos(heap, logs[l])
              /\ HasSucceses(heap, logs[l])' = HasSucceses(heap, logs[l])
      ]_vars

====
